---- MODULE Spec2Model ----
(***************************************************************************)
(* Model of src/main.py: the Arc sidebar export (StorableSidebar.json) to  *)
(* Netscape bookmark HTML converter.                                       *)
(*                                                                         *)
(*   main -> read_json (fix_malformed_urls, json.loads)                    *)
(*        -> convert_json_to_html (container selection, get_spaces,        *)
(*           convert_to_bookmarks, convert_bookmarks_to_html)              *)
(*        -> write_html                                                    *)
(*                                                                         *)
(* JSON values are tagged records [t, v]; Python dicts that the code       *)
(* iterates in insertion order are sequences of [key, value] entries.      *)
(* A Python str is a TLA+ string; the rendered document is the sequence of *)
(* the string pieces the code concatenates.                                *)
(***************************************************************************)
EXTENDS Integers, Sequences, FiniteSets, TLC

VARIABLES
    pc,                \* the statement of main / convert_json_to_html that runs next
    fileExists,        \* whether StorableSidebar.json is in the working directory
    fileText,          \* its text, as the sequence of its escape-relevant pieces
    doc,               \* the containers list the text denotes once it parses
    json_data,         \* main: data
    target_container,  \* convert_json_to_html: target_container (NoContainer = None)
    max_items,         \* convert_json_to_html: max_items
    spaces_names,      \* get_spaces: spaces_names
    spaces_count,      \* get_spaces: spaces_count
    n,                 \* get_spaces: n
    bookmarks,         \* convert_to_bookmarks: bookmarks["bookmarks"]
    bookmarks_count,   \* convert_to_bookmarks: bookmarks_count
    visited,           \* ids of the Folder items line 140 recursed into, in call order
    html,              \* main: html
    outFile,           \* the arc_bookmarks_<date>.html file
    exc                \* the exception that ended the run ("" = none)

vars == <<pc, fileExists, fileText, doc, json_data, target_container, max_items,
          spaces_names, spaces_count, n, bookmarks, bookmarks_count, visited,
          html, outFile, exc>>

---------------------------------------------------------------------------
(* Bounds of the explored inputs *)

MaxContainers == 3
MaxSpaces == 2
MaxCids == 2
MaxItems == 2

---------------------------------------------------------------------------
(* JSON values *)

JStr(s) == [t |-> "str", v |-> s]
JNull == [t |-> "null", v |-> ""]
JNum == [t |-> "num", v |-> "7"]
JDict(r) == [t |-> "dict", v |-> r]
EmptyDict == JDict(<<>>)

IsDict(x) == x.t = "dict"

\* Python truthiness of a JSON value (None and "" are falsy)
Truthy(x) ==
    CASE x.t = "null" -> FALSE
      [] x.t = "str" -> x.v # ""
      [] x.t = "dict" -> DOMAIN x.v # {}
      [] OTHER -> TRUE

\* str(x), also what an f-string writes for x
PyStr(x) ==
    CASE x.t = "str" -> x.v
      [] x.t = "null" -> "None"
      [] x.t = "num" -> x.v
      [] x.t = "dict" ->
            IF "pinned" \in DOMAIN x.v THEN "{'pinned': {}}"
            ELSE IF "unpinned" \in DOMAIN x.v THEN "{'unpinned': {}}"
            ELSE "{}"

\* the strings of the model that have "title" as a substring
StringsWithTitle == {"title", "untitled"}

---------------------------------------------------------------------------
(* Python dict: insertion-ordered, assignment to a present key keeps its place *)

DictKeys(d) == {d[i].key : i \in 1..Len(d)}

DictSet(d, k, val) ==
    IF k \in DictKeys(d)
    THEN [i \in 1..Len(d) |-> IF d[i].key = k THEN [key |-> k, value |-> val] ELSE d[i]]
    ELSE Append(d, [key |-> k, value |-> val])

---------------------------------------------------------------------------
(* fix_malformed_urls and json.loads *)

\* one re.sub chain applied to one piece of the text
FixPiece(p) ==
    CASE p = "file:\\/\\/\\/x" -> "file:///x"
      [] p = "https:\\/\\/x" -> "https://x"
      [] p = "http:\\/\\/x" -> "http://x"
      [] p = "C:\\Users" -> "C:/Users"
      [] p = "D:\\Users" -> "D:/Users"
      [] OTHER -> p

fix_malformed_urls(json_content) ==
    [i \in 1..Len(json_content) |-> FixPiece(json_content[i])]

\* pieces that are not valid inside a JSON string (backslash + U is no escape)
InvalidJson == {"C:\\Users", "D:\\Users", "E:\\Users"}

JsonParses(content) == \A i \in 1..Len(content) : content[i] \notin InvalidJson

---------------------------------------------------------------------------
(* get_spaces *)

\* `"title" in space`: key test on a dict, substring test on a str,
\* TypeError on anything else
TitleIn(space) ==
    CASE space.t = "dict" -> IF "title" \in DOMAIN space.v THEN "yes" ELSE "no"
      [] space.t = "str" -> IF space.v \in StringsWithTitle THEN "yes" ELSE "no"
      [] OTHER -> "TypeError"

RECURSIVE MapContainerIDs(_, _, _, _)
\* lines 99-104: the loop over range(len(containers)), from index i (1-based)
MapContainerIDs(containers, title, names, i) ==
    IF names.exc # "" \/ i > Len(containers) THEN names
    ELSE
      LET c == containers[i] IN
      IF IsDict(c) /\ ("pinned" \in DOMAIN c.v \/ "unpinned" \in DOMAIN c.v)
      THEN IF i + 1 > Len(containers)
           THEN [names EXCEPT !.exc = "IndexError"]
           ELSE IF "pinned" \in DOMAIN c.v
                THEN MapContainerIDs(containers, title,
                        [names EXCEPT !.pinned =
                            DictSet(@, PyStr(containers[i + 1]), title)], i + 1)
                ELSE MapContainerIDs(containers, title,
                        [names EXCEPT !.unpinned =
                            DictSet(@, PyStr(containers[i + 1]), title)], i + 1)
      ELSE MapContainerIDs(containers, title, names, i + 1)

\* lines 88-106: one iteration of `for space in spaces`
SpaceStep(space, st) ==
    LET has == TitleIn(space) IN
    IF has = "TypeError" THEN [st EXCEPT !.exc = "TypeError"]
    ELSE IF has = "yes" /\ ~IsDict(space) THEN [st EXCEPT !.exc = "TypeError"]
    ELSE
      LET title == IF has = "yes" THEN space.v.title
                   ELSE JStr("Space " \o ToString(st.n))
          st1 == IF has = "yes" THEN st ELSE [st EXCEPT !.n = @ + 1]
      IN
      IF IsDict(space)
      THEN IF "newContainerIDs" \notin DOMAIN space.v
           THEN [st1 EXCEPT !.exc = "KeyError:newContainerIDs"]
           ELSE LET m == MapContainerIDs(space.v.newContainerIDs, title, st1, 1) IN
                IF m.exc # "" THEN m
                ELSE [m EXCEPT !.spaces_count = @ + 1]
      ELSE st1

RECURSIVE SpacesLoop(_, _, _)
SpacesLoop(spaces, st, k) ==
    IF st.exc # "" \/ k > Len(spaces) THEN st
    ELSE SpacesLoop(spaces, SpaceStep(spaces[k], st), k + 1)

get_spaces(spaces) ==
    SpacesLoop(spaces,
               [pinned |-> <<>>, unpinned |-> <<>>, spaces_count |-> 0, n |-> 1,
                exc |-> ""], 1)

---------------------------------------------------------------------------
(* convert_to_bookmarks *)

\* CPython's recursion limit, scaled to the model: deeper than any chain of
\* distinct items below a root, so only a parentID cycle can reach it
RecursionLimit == MaxItems + 2

RECURSIVE ItemDictLoop(_, _, _)
\* line 118: {item["id"]: item for item in items if isinstance(item, dict)}
ItemDictLoop(items, d, k) ==
    IF k > Len(items) THEN d
    ELSE IF IsDict(items[k])
         THEN ItemDictLoop(items, DictSet(d, items[k].v.id, items[k].v), k + 1)
         ELSE ItemDictLoop(items, d, k + 1)

ItemDict(items) == ItemDictLoop(items, <<>>, 1)

\* line 126: item.get("parentID") == parent_id
ParentIs(item, parent_id) ==
    "parentID" \in DOMAIN item /\ item.parentID = JStr(parent_id)

\* line 127: "data" in item and "tab" in item["data"]
HasTab(item) == "data" \in DOMAIN item /\ "tab" \in DOMAIN item.data

\* dict.get(key, default)
Get(d, k, default) == IF k \in DOMAIN d THEN d[k] ELSE default

\* the node lines 129-133 would make if the saved title came before the item's own
BookmarkNode_SavedTitleFirst(item) ==
    LET saved == Get(item.data.tab, "savedTitle", JStr("")) IN
    [title |-> IF Truthy(saved) THEN saved ELSE Get(item, "title", JNull),
     type |-> "bookmark",
     url |-> Get(item.data.tab, "savedURL", JStr(""))]

\* lines 129-133: the bookmark node of an item with data.tab
BookmarkNode(item) ==
    LET own == Get(item, "title", JNull) IN
    [title |-> IF Truthy(own) THEN own ELSE Get(item.data.tab, "savedTitle", JStr("")),
     type |-> "bookmark",
     url |-> Get(item.data.tab, "savedURL", JStr(""))]

\* the node lines 137-141 would make if the recursion's result were dropped
FolderNode_NoChildren(item, children) ==
    [title |-> item.title, type |-> "folder", children |-> <<>>]

\* lines 137-141: the folder node of an item with a title
FolderNode(item, children) ==
    [title |-> item.title, type |-> "folder", children |-> children]

\* line 140 recursing on the parent's identifier instead of the item's own
RecursionArg_Parent(item_id, parent_id) == parent_id

\* line 140: the identifier handed to the recursive call
RecursionArg(item_id, parent_id) == item_id

RECURSIVE ChildrenLoop(_, _, _, _, _)
\* lines 120-143: recurse_into_children(parent_id), the loop from entry k of
\* item_dict on; acc = [children, bookmarks_count, visited, exc]
ChildrenLoop(item_dict, parent_id, depth, acc, k) ==
    IF acc.exc # "" \/ k > Len(item_dict) THEN acc
    ELSE
      LET item_id == item_dict[k].key
          item == item_dict[k].value
      IN
      IF ~ParentIs(item, parent_id)
      THEN ChildrenLoop(item_dict, parent_id, depth, acc, k + 1)
      ELSE IF HasTab(item)
      THEN ChildrenLoop(item_dict, parent_id, depth,
              [acc EXCEPT !.children = Append(@, BookmarkNode(item)),
                          !.bookmarks_count = @ + 1], k + 1)
      ELSE IF "title" \in DOMAIN item
      THEN IF depth + 1 > RecursionLimit
           THEN [acc EXCEPT !.exc = "RecursionError"]
           ELSE
             LET sub == ChildrenLoop(item_dict, RecursionArg(item_id, parent_id), depth + 1,
                            [children |-> <<>>,
                             bookmarks_count |-> acc.bookmarks_count,
                             visited |-> Append(acc.visited, item_id),
                             exc |-> ""], 1)
             IN
             IF sub.exc # "" THEN [acc EXCEPT !.exc = sub.exc]
             ELSE ChildrenLoop(item_dict, parent_id, depth,
                     [children |-> Append(acc.children, FolderNode(item, sub.children)),
                      bookmarks_count |-> sub.bookmarks_count,
                      visited |-> sub.visited,
                      exc |-> ""], k + 1)
      ELSE ChildrenLoop(item_dict, parent_id, depth, acc, k + 1)

recurse_into_children(item_dict, parent_id, depth, count, seen) ==
    ChildrenLoop(item_dict, parent_id, depth,
                 [children |-> <<>>, bookmarks_count |-> count, visited |-> seen,
                  exc |-> ""], 1)

RECURSIVE SpaceFolders(_, _, _, _)
\* lines 146-152: one root folder per entry of spaces["pinned"], from entry k on;
\* acc = [bookmarks, bookmarks_count, visited, exc]
SpaceFolders(pinned, item_dict, acc, k) ==
    IF acc.exc # "" \/ k > Len(pinned) THEN acc
    ELSE
      LET r == recurse_into_children(item_dict, pinned[k].key, 1,
                                     acc.bookmarks_count, acc.visited)
      IN
      IF r.exc # "" THEN [acc EXCEPT !.exc = r.exc]
      ELSE SpaceFolders(pinned, item_dict,
              [bookmarks |-> Append(acc.bookmarks,
                                [title |-> pinned[k].value, type |-> "folder",
                                 children |-> r.children]),
               bookmarks_count |-> r.bookmarks_count,
               visited |-> r.visited,
               exc |-> ""], k + 1)

\* a dict item without "id" raises KeyError at line 118
ItemsHaveIds(items) ==
    \A k \in 1..Len(items) : IsDict(items[k]) => "id" \in DOMAIN items[k].v

convert_to_bookmarks(spaces, items) ==
    IF ~ItemsHaveIds(items)
    THEN [bookmarks |-> <<>>, bookmarks_count |-> 0, visited |-> <<>>, exc |-> "KeyError:id"]
    ELSE SpaceFolders(spaces.pinned, ItemDict(items),
                      [bookmarks |-> <<>>, bookmarks_count |-> 0, visited |-> <<>>,
                       exc |-> ""], 1)

---------------------------------------------------------------------------
(* convert_bookmarks_to_html *)

NL == "\n"
TAB == "\t"
DLOpen == "<DL><p>"
DLClose == "</DL><p>"

\* lines 162-166: the initial html_str
Preamble ==
    << "<!DOCTYPE NETSCAPE-Bookmark-file-1>", NL,
       "<META HTTP-EQUIV=\"Content-Type\" CONTENT=\"text/html; charset=UTF-8\">", NL,
       "<TITLE>Bookmarks</TITLE>", NL,
       "<H1>Bookmarks</H1>", NL,
       DLOpen >>

\* line 170 with a fixed single tab
Indent_OneTab(level) == <<TAB>>

\* "\t" * level
Indent(level) == [i \in 1..level |-> TAB]

RECURSIVE traverse_from(_, _, _, _)
\* lines 168-179: traverse_dict(d, html_str, level), from element k of d on
traverse_from(d, html_str, level, k) ==
    IF k > Len(d) THEN html_str
    ELSE
      LET item == d[k]
          indent == Indent(level)
      IN
      IF item.type = "folder"
      THEN LET h1 == html_str \o <<NL>> \o indent
                        \o <<"<DT><H3>", PyStr(item.title), "</H3>">>
               h2 == h1 \o <<NL>> \o indent \o <<DLOpen>>
               h3 == traverse_from(item.children, h2, level + 1, 1)
               h4 == h3 \o <<NL>> \o indent \o <<DLClose>>
           IN traverse_from(d, h4, level, k + 1)
      ELSE IF item.type = "bookmark"
      THEN traverse_from(d,
              html_str \o <<NL>> \o indent
                  \o <<"<DT><A HREF=\"", PyStr(item.url), "\">", PyStr(item.title), "</A>">>,
              level, k + 1)
      ELSE traverse_from(d, html_str, level, k + 1)

traverse_dict(d, html_str, level) == traverse_from(d, html_str, level, 1)

convert_bookmarks_to_html(bms) ==
    traverse_dict(bms, Preamble, 1) \o <<NL, DLClose>>

---------------------------------------------------------------------------
(* convert_json_to_html, lines 53-64: container selection *)

RECURSIVE SelectLoop(_, _, _)
\* sel = [target_container, max_items]; target_container is JNull for None
SelectLoop(containers, sel, k) ==
    IF k > Len(containers) THEN sel
    ELSE
      LET container == containers[k] IN
      IF "spaces" \in DOMAIN container /\ "items" \in DOMAIN container
         /\ Len(container.items) > sel.max_items
      THEN SelectLoop(containers,
              [target_container |-> JDict(container),
               max_items |-> Len(container.items)], k + 1)
      ELSE SelectLoop(containers, sel, k + 1)

SelectContainer(containers) ==
    SelectLoop(containers, [target_container |-> JNull, max_items |-> 0], 1)

\* lines 51-76 as one call: [html, exc]
convert_json_to_html(data) ==
    LET sel == SelectContainer(data.sidebar.containers) IN
    IF ~Truthy(sel.target_container) THEN [html |-> <<>>, exc |-> ""]
    ELSE
      LET sp == get_spaces(sel.target_container.v.spaces) IN
      IF sp.exc # "" THEN [html |-> <<>>, exc |-> sp.exc]
      ELSE
        LET b == convert_to_bookmarks([pinned |-> sp.pinned, unpinned |-> sp.unpinned],
                                      sel.target_container.v.items)
        IN
        IF b.exc # "" THEN [html |-> <<>>, exc |-> b.exc]
        ELSE [html |-> convert_bookmarks_to_html(b.bookmarks), exc |-> ""]

---------------------------------------------------------------------------
(* The run: main *)

EmptyStr == <<>>
NoFile == [exists |-> FALSE, content |-> EmptyStr]

Raise(e) ==
    /\ pc' = "raised"
    /\ exc' = e

\* lines 34-48 if a missing file were read as an empty document
ReadJson_IgnoresMissingFile ==
    /\ pc = "read_json"
    /\ IF fileExists /\ ~JsonParses(fix_malformed_urls(fileText))
       THEN Raise("JSONDecodeError") /\ UNCHANGED json_data
       ELSE /\ json_data' = [sidebar |-> [containers |-> IF fileExists THEN doc ELSE <<>>]]
            /\ pc' = "convert_json_to_html"
            /\ UNCHANGED exc
    /\ UNCHANGED <<fileExists, fileText, doc, target_container, max_items, spaces_names,
                   spaces_count, n, bookmarks, bookmarks_count, visited, html, outFile>>

\* lines 34-48
ReadJson ==
    /\ pc = "read_json"
    /\ IF ~fileExists
       THEN Raise("FileNotFoundError") /\ UNCHANGED json_data
       ELSE IF ~JsonParses(fix_malformed_urls(fileText))
       THEN Raise("JSONDecodeError") /\ UNCHANGED json_data
       ELSE /\ json_data' = [sidebar |-> [containers |-> doc]]
            /\ pc' = "convert_json_to_html"
            /\ UNCHANGED exc
    /\ UNCHANGED <<fileExists, fileText, doc, target_container, max_items, spaces_names,
                   spaces_count, n, bookmarks, bookmarks_count, visited, html, outFile>>

\* lines 53-70
ChooseContainer ==
    /\ pc = "convert_json_to_html"
    /\ LET sel == SelectContainer(json_data.sidebar.containers) IN
       /\ target_container' = sel.target_container
       /\ max_items' = sel.max_items
       /\ IF ~Truthy(sel.target_container)
          THEN html' = EmptyStr /\ pc' = "write_html"
          ELSE pc' = "get_spaces" /\ UNCHANGED html
    /\ UNCHANGED <<fileExists, fileText, doc, json_data, spaces_names, spaces_count, n,
                   bookmarks, bookmarks_count, visited, outFile, exc>>

\* line 72
GetSpaces ==
    /\ pc = "get_spaces"
    /\ LET r == get_spaces(target_container.v.spaces) IN
       IF r.exc # ""
       THEN Raise(r.exc) /\ UNCHANGED <<spaces_names, spaces_count, n>>
       ELSE /\ spaces_names' = [pinned |-> r.pinned, unpinned |-> r.unpinned]
            /\ spaces_count' = r.spaces_count
            /\ n' = r.n
            /\ pc' = "convert_to_bookmarks"
            /\ UNCHANGED exc
    /\ UNCHANGED <<fileExists, fileText, doc, json_data, target_container, max_items,
                   bookmarks, bookmarks_count, visited, html, outFile>>

\* lines 73-74
ConvertToBookmarks ==
    /\ pc = "convert_to_bookmarks"
    /\ LET r == convert_to_bookmarks(spaces_names, target_container.v.items) IN
       IF r.exc # ""
       THEN Raise(r.exc) /\ UNCHANGED <<bookmarks, bookmarks_count, visited>>
       ELSE /\ bookmarks' = r.bookmarks
            /\ bookmarks_count' = r.bookmarks_count
            /\ visited' = r.visited
            /\ pc' = "convert_bookmarks_to_html"
            /\ UNCHANGED exc
    /\ UNCHANGED <<fileExists, fileText, doc, json_data, target_container, max_items,
                   spaces_names, spaces_count, n, html, outFile>>

\* line 76
ConvertBookmarksToHtml ==
    /\ pc = "convert_bookmarks_to_html"
    /\ html' = convert_bookmarks_to_html(bookmarks)
    /\ pc' = "write_html"
    /\ UNCHANGED <<fileExists, fileText, doc, json_data, target_container, max_items,
                   spaces_names, spaces_count, n, bookmarks, bookmarks_count, visited,
                   outFile, exc>>

\* lines 188-198, then line 31
WriteHtml ==
    /\ pc = "write_html"
    /\ outFile' = [exists |-> TRUE, content |-> html]
    /\ pc' = "done"
    /\ UNCHANGED <<fileExists, fileText, doc, json_data, target_container, max_items,
                   spaces_names, spaces_count, n, bookmarks, bookmarks_count, visited,
                   html, exc>>

Next ==
    \/ ReadJson
    \/ ChooseContainer
    \/ GetSpaces
    \/ ConvertToBookmarks
    \/ ConvertBookmarksToHtml
    \/ WriteHtml

---------------------------------------------------------------------------
(* Inputs *)

\* all sequences over S of length 0..k
RECURSIVE SeqsUpTo(_, _)
SeqsUpTo(S, k) ==
    IF k = 0 THEN {<<>>}
    ELSE LET shorter == SeqsUpTo(S, k - 1) IN
         shorter \cup {Append(q, x) : q \in {r \in shorter : Len(r) = k - 1}, x \in S}

Pinned == JDict([pinned |-> EmptyDict])
Unpinned == JDict([unpinned |-> EmptyDict])

Space(title, cids) == JDict([title |-> JStr(title), newContainerIDs |-> cids])
UntitledSpace(cids) == JDict([newContainerIDs |-> cids])

Tab(t, u) == [tab |-> [savedTitle |-> JStr(t), savedURL |-> JStr(u)]]
PlainBookmark(id, parent) ==
    JDict([id |-> id, parentID |-> JStr(parent), data |-> Tab("T" \o id, "U" \o id)])
PlainFolder(id, parent) ==
    JDict([id |-> id, parentID |-> JStr(parent), title |-> JStr("F" \o id)])
Untyped(id, parent) ==
    JDict([id |-> id, parentID |-> JStr(parent)])

TwoPinnedSpaces ==
    << JStr("sid1"), Space("Work", <<Pinned, JStr("c1"), Unpinned, JStr("u1")>>),
       JStr("sid2"), Space("Home", <<Unpinned, JStr("u2"), Pinned, JStr("c2")>>) >>

TwoItems == << PlainBookmark("i1", "c1"), PlainBookmark("i2", "c2") >>

Container(spaces, items) == [version |-> JNum, spaces |-> spaces, items |-> items]

\* -- containers: which keys each container has and how many items
ContainerAt(p) ==
    LET sp == << Space("S" \o ToString(p), <<Pinned, JStr("c1")>>) >>
        its == { SubSeq(TwoItems, 1, c) : c \in 0..2 }
    IN  {[version |-> JNum], [version |-> JNum, spaces |-> sp]}
        \cup {[version |-> JNum, items |-> i] : i \in its}
        \cup {Container(sp, i) : i \in its}

RECURSIVE ContainerLists(_)
ContainerLists(k) ==
    IF k = 0 THEN {<<>>}
    ELSE LET shorter == ContainerLists(k - 1) IN
         shorter \cup {Append(q, c) : q \in {r \in shorter : Len(r) = k - 1},
                                        c \in ContainerAt(k)}

DocsContainers == ContainerLists(MaxContainers)

\* -- spaces: the entries of the spaces list
SpaceEntries ==
    { JStr("sid"), JStr("untitled"), JNum,
      Space("Work", <<Pinned, JStr("c1")>>),
      UntitledSpace(<<Pinned, JStr("c2"), Unpinned, JStr("u2")>>),
      UntitledSpace(<<JStr("x"), Pinned>>) }

DocsSpaces == { <<Container(s, TwoItems)>> : s \in SeqsUpTo(SpaceEntries, MaxSpaces) }

\* -- newContainerIDs: markers and ids in any arrangement
CidEntries == { Pinned, Unpinned, JStr("c1"), JStr("c2") }

DocsCids ==
    { <<Container(<<UntitledSpace(<<Pinned, JStr("c1")>>), JStr("sid"), s>>, TwoItems)>> :
        s \in {UntitledSpace(c) : c \in SeqsUpTo(CidEntries, MaxCids)}
              \cup {Space("Work", c) : c \in SeqsUpTo(CidEntries, MaxCids)} }

\* -- items: the parentID structure
ItemEntries ==
    { PlainBookmark(i, p) : i \in {"a", "b", "c2"}, p \in {"c1", "c2", "a"} }
    \cup { PlainFolder(i, p) : i \in {"a", "b", "c2"}, p \in {"c1", "c2", "a"} }
    \cup { Untyped(i, p) : i \in {"a", "b", "c2"}, p \in {"c1", "c2", "a"} }

DocsItems == { <<Container(TwoPinnedSpaces, i)>> : i \in SeqsUpTo(ItemEntries, MaxItems) }

\* -- fields: one item under the spec's "Work" space, every mix of present,
\*    null and empty fields
OptField(name, values) == {<<>>} \cup {name :> x : x \in values}

TabRecords ==
    { t @@ u : t \in OptField("savedTitle", {JNull, JStr(""), JStr("Example")}),
               u \in OptField("savedURL", {JNull, JStr(""), JStr("https://example.com")}) }

FieldItems ==
    { [id |-> "b1"] @@ p @@ t @@ d :
        p \in OptField("parentID", {JNull, JStr("c1"), JStr("zz")}),
        t \in OptField("title", {JNull, JStr(""), JStr("Own")}),
        d \in {<<>>, "data" :> [other |-> JNum]} \cup {"data" :> [tab |-> r] : r \in TabRecords} }

WorkSpace == << Space("Work", <<Pinned, JStr("c1")>>) >>
WorkRoot == JDict([id |-> "c1", parentID |-> JNull, title |-> JStr("Work")])

Scenario ==
    << Container(WorkSpace,
         << WorkRoot,
            JDict([id |-> "b1", parentID |-> JStr("c1"),
                   data |-> Tab("Example", "https://example.com")]) >>) >>

DocsFields ==
    { <<Container(WorkSpace, <<WorkRoot, JDict(i)>>)>> : i \in FieldItems }
    \cup { <<Container(WorkSpace, <<WorkRoot, JDict([parentID |-> JStr("c1")])>>)>>,
           <<Container(WorkSpace, <<JStr("stray"), Scenario[1].items[2], JNum>>)>> }

\* -- file: the text's pieces, with a few documents
TextPieces == { "plain", "https:\\/\\/x", "file:\\/\\/\\/x", "C:\\Users", "E:\\Users" }

DocsFile ==
    { Scenario, <<>>,
      <<Container(<<UntitledSpace(<<Pinned>>)>>, TwoItems)>>,
      <<Container(TwoPinnedSpaces, <<PlainFolder("c2", "c2")>>)>> }

Docs == DocsContainers \cup DocsSpaces \cup DocsCids \cup DocsItems \cup DocsFields

OldFile == [exists |-> TRUE, content |-> <<"old">>]

Init ==
    /\ pc = "read_json"
    /\ \/ /\ fileExists = FALSE
          /\ fileText = <<>>
          /\ doc = <<>>
          /\ outFile \in {NoFile, OldFile}
       \/ /\ fileExists = TRUE
          /\ fileText \in SeqsUpTo(TextPieces, 2)
          /\ doc \in IF JsonParses(fix_malformed_urls(fileText)) THEN DocsFile ELSE {<<>>}
          /\ outFile \in {NoFile, OldFile}
       \/ /\ fileExists = TRUE
          /\ fileText = <<"plain">>
          /\ doc \in Docs
          /\ outFile = NoFile
    /\ json_data = <<>>
    /\ target_container = JNull
    /\ max_items = 0
    /\ spaces_names = [pinned |-> <<>>, unpinned |-> <<>>]
    /\ spaces_count = 0
    /\ n = 1
    /\ bookmarks = <<>>
    /\ bookmarks_count = 0
    /\ visited = <<>>
    /\ html = EmptyStr
    /\ exc = ""

Spec == Init /\ [][Next]_vars

---------------------------------------------------------------------------
(* Where the run stands *)

Parsed == pc \notin {"read_json"} /\ exc \notin {"FileNotFoundError", "JSONDecodeError"}
Chosen == Parsed /\ pc # "convert_json_to_html"
Selected == Chosen /\ Truthy(target_container)
\* get_spaces was called and returned, or raised
ResolverRan == Selected /\ pc # "get_spaces"
ResolverReturned ==
    ResolverRan /\ exc \notin {"TypeError", "IndexError", "KeyError:newContainerIDs"}
\* convert_to_bookmarks was called and returned, or ran out of stack
BuilderRan == ResolverReturned /\ pc # "convert_to_bookmarks" /\ exc # "KeyError:id"
\* convert_to_bookmarks was called and returned
BuilderReturned == Selected /\ pc \in {"convert_bookmarks_to_html", "write_html", "done"}
\* convert_bookmarks_to_html was called and returned
Rendered == Selected /\ pc \in {"write_html", "done"}
\* convert_json_to_html returned
Converted == Chosen /\ pc \in {"write_html", "done"}

TheSpaces == target_container.v.spaces
TheItems == target_container.v.items

IsMarker(c) == IsDict(c) /\ ("pinned" \in DOMAIN c.v \/ "unpinned" \in DOMAIN c.v)

\* a dict space whose newContainerIDs ends with a marker
EndsWithMarker(space) ==
    /\ IsDict(space)
    /\ "newContainerIDs" \in DOMAIN space.v
    /\ Len(space.v.newContainerIDs) > 0
    /\ IsMarker(space.v.newContainerIDs[Len(space.v.newContainerIDs)])

---------------------------------------------------------------------------
(* C1 *)

\* C1: a space whose newContainerIDs ends with a pinned/unpinned marker does not
\* make get_spaces raise: once the resolver has run on such a spaces list, the run
\* has not ended in the IndexError of reading the element after the marker.
C1_TrailingMarkerDoesNotRaise ==
    (ResolverRan /\ \E k \in 1..Len(TheSpaces) : EndsWithMarker(TheSpaces[k]))
        => exc # "IndexError"

---------------------------------------------------------------------------
(* C2 *)

Qualifying(containers) ==
    {k \in 1..Len(containers) :
        "spaces" \in DOMAIN containers[k] /\ "items" \in DOMAIN containers[k]}

\* the first container with the most items among the qualifying ones
GreatestFirst(containers) ==
    CHOOSE k \in Qualifying(containers) :
        \A j \in Qualifying(containers) :
            \/ Len(containers[j].items) < Len(containers[k].items)
            \/ (Len(containers[j].items) = Len(containers[k].items) /\ k <= j)

\* C2: whenever some container has both "spaces" and "items", the selection picks
\* the first of those with the most items (also when they all have zero items);
\* nothing is selected only when no container has both keys.
C2_SelectsGreatestQualifying ==
    Chosen =>
        LET containers == json_data.sidebar.containers IN
        IF Qualifying(containers) = {}
        THEN target_container = JNull
        ELSE target_container = JDict(containers[GreatestFirst(containers)])

---------------------------------------------------------------------------
(* C3 *)

EmptyDocument == Preamble \o <<NL, DLClose>>

\* C3: whenever the conversion returns with zero pinned mapping entries (no
\* spaces, no pinned markers, or no container with both keys), its result is the
\* preamble, the opening root list and the closing tag, with zero bookmarks.
C3_NoPinnedGivesEmptyDocument ==
    (Converted /\ Len(spaces_names.pinned) = 0)
        => (html = EmptyDocument /\ bookmarks_count = 0)

---------------------------------------------------------------------------
(* C8 *)

DictSpaces(spaces, upto) == {k \in 1..upto : IsDict(spaces[k])}
UntitledDictSpaces(spaces, upto) ==
    {k \in DictSpaces(spaces, upto) : "title" \notin DOMAIN spaces[k].v}

HasNonDict(spaces) == \E k \in 1..Len(spaces) : ~IsDict(spaces[k])

\* the last space is an untitled dict space that pins exactly one container id
LastPinsOne(spaces) ==
    /\ Len(spaces) > 0
    /\ Len(spaces) \in UntitledDictSpaces(spaces, Len(spaces))
    /\ Len(spaces[Len(spaces)].v.newContainerIDs) = 2
    /\ spaces[Len(spaces)].v.newContainerIDs[1] = Pinned

\* C8: non-dict entries of the spaces list are ignored: they raise nothing, are
\* not counted, and consume no "Space N" number, so the k-th untitled dict space
\* is titled "Space k".
C8_NonDictSpacesIgnored ==
    (ResolverRan /\ HasNonDict(TheSpaces)
       /\ \A k \in DictSpaces(TheSpaces, Len(TheSpaces)) : ~EndsWithMarker(TheSpaces[k]))
    => /\ exc \notin {"TypeError", "IndexError", "KeyError:newContainerIDs"}
       /\ spaces_count = Cardinality(DictSpaces(TheSpaces, Len(TheSpaces)))
       /\ n = 1 + Cardinality(UntitledDictSpaces(TheSpaces, Len(TheSpaces)))
       /\ LastPinsOne(TheSpaces) =>
            \E i \in 1..Len(spaces_names.pinned) :
                /\ spaces_names.pinned[i].key =
                       PyStr(TheSpaces[Len(TheSpaces)].v.newContainerIDs[2])
                /\ spaces_names.pinned[i].value =
                       JStr("Space " \o ToString(
                           Cardinality(UntitledDictSpaces(TheSpaces, Len(TheSpaces)))))

---------------------------------------------------------------------------
(* C9 *)

RECURSIVE AllTitlesAreStrings(_)
AllTitlesAreStrings(nodes) ==
    \A k \in 1..Len(nodes) :
        /\ nodes[k].title.t = "str"
        /\ nodes[k].type = "folder" => AllTitlesAreStrings(nodes[k].children)

\* C9: every node of the tree convert_to_bookmarks returns has a non-null string
\* title, also for items whose title or savedTitle is present but null.
C9_TitlesAreNonNullStrings ==
    BuilderReturned => AllTitlesAreStrings(bookmarks)

---------------------------------------------------------------------------
(* C6 *)

TheItemDict == ItemDict(TheItems)

RECURSIVE ExpectedChildren(_, _, _)
\* the nodes of the entries whose parentID is P, in the lookup's order, a
\* folder's children being those of its own id
ExpectedChildren(item_dict, P, fuel) ==
    IF fuel = 0 THEN <<>>
    ELSE
      LET kids == SelectSeq(item_dict,
                    LAMBDA e : /\ "parentID" \in DOMAIN e.value
                               /\ e.value.parentID = JStr(P)
                               /\ (HasTab(e.value) \/ "title" \in DOMAIN e.value))
      IN [i \in 1..Len(kids) |->
            IF HasTab(kids[i].value)
            THEN BookmarkNode(kids[i].value)
            ELSE [title |-> kids[i].value.title, type |-> "folder",
                  children |-> ExpectedChildren(item_dict, kids[i].key, fuel - 1)]]

\* C6: convert_to_bookmarks returns one root folder per pinned entry, titled with
\* the space name, in the pinned mapping's order; a folder's children are the
\* classified nodes of the items whose parentID is the folder's identifier, in
\* the lookup's insertion order, built recursively from each Folder item's id.
C6_TreeShape ==
    BuilderReturned =>
        /\ Len(bookmarks) = Len(spaces_names.pinned)
        /\ \A k \in 1..Len(bookmarks) :
              bookmarks[k] =
                [title |-> spaces_names.pinned[k].value, type |-> "folder",
                 children |-> ExpectedChildren(TheItemDict, spaces_names.pinned[k].key,
                                               RecursionLimit + 1)]

\* two roots, one of them holding a folder that holds a node
C6_Witness ==
    /\ BuilderReturned
    /\ Len(bookmarks) = 2
    /\ \E k \in 1..2 : \E c \in 1..Len(bookmarks[k].children) :
          /\ bookmarks[k].children[c].type = "folder"
          /\ Len(bookmarks[k].children[c].children) > 0

---------------------------------------------------------------------------
(* C7 *)

Count(h, from, to, x) == Cardinality({i \in from..to : h[i] = x})

\* the end of the line that starts at s
LineEnd(h, s) ==
    CHOOSE e \in (s - 1)..Len(h) :
        /\ \A i \in s..e : h[i] # NL
        /\ e = Len(h) \/ h[e + 1] = NL

RECURSIVE Lines(_, _)
\* the lines of h from position s on, each with its tab count and its pieces
Lines(h, s) ==
    IF s > Len(h) + 1 THEN <<>>
    ELSE LET e == LineEnd(h, s)
             tabs == CHOOSE t \in 0..(e - s + 1) :
                        /\ \A i \in s..(s + t - 1) : h[i] = TAB
                        /\ s + t > e \/ h[s + t] # TAB
         IN <<[start |-> s, tabs |-> tabs, text |-> SubSeq(h, s + tabs, e)]>>
            \o Lines(h, e + 2)

\* open <DL><p> blocks at position s
OpenDepth(h, s) == Count(h, 1, s - 1, DLOpen) - Count(h, 1, s - 1, DLClose)

RECURSIVE Preorder(_, _)
\* the nodes of a tree in document order, with their depth
Preorder(nodes, depth) ==
    IF Len(nodes) = 0 THEN <<>>
    ELSE LET x == Head(nodes) IN
         <<[depth |-> depth, type |-> x.type, title |-> PyStr(x.title)]>>
         \o (IF x.type = "folder" THEN Preorder(x.children, depth + 1) ELSE <<>>)
         \o Preorder(Tail(nodes), depth)

IsNodeLine(l) == Len(l.text) > 0 /\ l.text[1] \in {"<DT><H3>", "<DT><A HREF=\""}

NodeOfLine(l) ==
    IF l.text[1] = "<DT><H3>"
    THEN [depth |-> l.tabs, type |-> "folder", title |-> l.text[2]]
    ELSE [depth |-> l.tabs, type |-> "bookmark", title |-> l.text[4]]

NodeLines(h) ==
    LET sel == SelectSeq(Lines(h, 1), IsNodeLine)
    IN [i \in 1..Len(sel) |-> NodeOfLine(sel[i])]

\* C7: a node at depth k (roots at depth 1) is rendered on a line with k tabs;
\* a folder's <DL><p> and </DL><p> stand at the folder's own indentation around
\* its descendants; no prefix of the document closes more lists than it opened,
\* and the whole document closes them all.
C7_NestingFidelity ==
    Rendered =>
        LET ls == Lines(html, 1) IN
        /\ NodeLines(html) = Preorder(bookmarks, 1)
        /\ \A i \in 1..Len(html) :
              Count(html, 1, i, DLClose) <= Count(html, 1, i, DLOpen)
        /\ Count(html, 1, Len(html), DLClose) = Count(html, 1, Len(html), DLOpen)
        /\ \A j \in 1..Len(ls) :
              /\ ls[j].tabs = OpenDepth(html, ls[j].start)
                                - (IF ls[j].text = <<DLClose>> THEN 1 ELSE 0)
              /\ (Len(ls[j].text) > 0 /\ ls[j].text[1] = "<DT><H3>") =>
                    /\ j < Len(ls)
                    /\ ls[j + 1].text = <<DLOpen>>
                    /\ ls[j + 1].tabs = ls[j].tabs

\* a folder in a folder in a root, with a bookmark in it
C7_Witness ==
    /\ Rendered
    /\ \E i \in 1..Len(NodeLines(html)) :
          NodeLines(html)[i].depth = 3 /\ NodeLines(html)[i].type = "bookmark"
    /\ \E i \in 1..Len(NodeLines(html)) :
          NodeLines(html)[i].depth = 2 /\ NodeLines(html)[i].type = "folder"

---------------------------------------------------------------------------
(* C5 *)

\* what convert_json_to_html makes of the document the file denotes
FullDocument == convert_json_to_html([sidebar |-> [containers |-> doc]])

---------------------------------------------------------------------------
(* C4 and C10: chains of parentID links *)

IsFolderItem(item) == ~HasTab(item) /\ "title" \in DOMAIN item

HasStrParent(item) == "parentID" \in DOMAIN item /\ item.parentID.t = "str"

RECURSIVE Chains(_, _, _, _)
\* the number of chains of parentID links that lead from a pinned container id,
\* through Folder entries, down to the identifier P
Chains(item_dict, pinned, P, fuel) ==
    IF fuel = 0 THEN 0
    ELSE (IF P \in DictKeys(pinned) THEN 1 ELSE 0)
         + (IF \E i \in 1..Len(item_dict) :
                  /\ item_dict[i].key = P
                  /\ IsFolderItem(item_dict[i].value)
                  /\ HasStrParent(item_dict[i].value)
            THEN LET i == CHOOSE i \in 1..Len(item_dict) : item_dict[i].key = P
                 IN Chains(item_dict, pinned, item_dict[i].value.parentID.v, fuel - 1)
            ELSE 0)

\* the number of times the builder comes across an entry
ChainsTo(item) ==
    IF HasStrParent(item)
    THEN Chains(TheItemDict, spaces_names.pinned, item.parentID.v, RecursionLimit + 1)
    ELSE 0

\* anchor lines with this HREF and this link text
AnchorCount(h, u, t) ==
    Cardinality({i \in 1..(Len(h) - 4) :
        /\ h[i] = "<DT><A HREF=\"" /\ h[i + 1] = u /\ h[i + 2] = "\">"
        /\ h[i + 3] = t /\ h[i + 4] = "</A>"})

NonEmptyStr(d, k) == k \in DOMAIN d /\ d[k].t = "str" /\ d[k].v # ""

\* a Bookmark item with a non-empty savedURL and savedTitle
RoundTrips(item) ==
    /\ HasTab(item)
    /\ NonEmptyStr(item.data.tab, "savedURL")
    /\ NonEmptyStr(item.data.tab, "savedTitle")

\* C4 as stated: every such item of the item list has exactly one anchor line
\* with its savedURL and its savedTitle, whatever its parentID and title.
C4_EveryBookmarkExactlyOnce ==
    Rendered =>
        \A k \in 1..Len(TheItems) :
            (IsDict(TheItems[k]) /\ RoundTrips(TheItems[k].v)) =>
                AnchorCount(html, TheItems[k].v.data.tab.savedURL.v,
                            TheItems[k].v.data.tab.savedTitle.v) = 1

\* the link text and HREF a Bookmark item is written with
LinkText(item) ==
    IF "title" \in DOMAIN item /\ Truthy(item.title) THEN PyStr(item.title)
    ELSE IF "savedTitle" \in DOMAIN item.data.tab THEN PyStr(item.data.tab.savedTitle)
    ELSE ""
LinkHref(item) ==
    IF "savedURL" \in DOMAIN item.data.tab THEN PyStr(item.data.tab.savedURL) ELSE ""

RECURSIVE SumChains(_, _, _, _)
\* the chains to all Bookmark entries from entry i on that are written as (u, t)
SumChains(item_dict, i, u, t) ==
    IF i > Len(item_dict) THEN 0
    ELSE (IF /\ HasTab(item_dict[i].value)
             /\ LinkHref(item_dict[i].value) = u
             /\ LinkText(item_dict[i].value) = t
          THEN ChainsTo(item_dict[i].value) ELSE 0)
         + SumChains(item_dict, i + 1, u, t)

\* C4, amended: a Bookmark entry of the lookup with non-empty savedURL and
\* savedTitle is written as an anchor whose HREF is its savedURL and whose text
\* is its own title when that is non-empty, else its savedTitle, once for every
\* chain of parentID links that leads to it from a pinned container id through
\* Folder items: once when that chain is unique, never when there is none.
C4_BookmarkOncePerChain ==
    Rendered =>
        \A k \in 1..Len(TheItemDict) :
            LET item == TheItemDict[k].value IN
            RoundTrips(item) =>
                /\ LinkHref(item) = item.data.tab.savedURL.v
                /\ AnchorCount(html, LinkHref(item), LinkText(item))
                     = SumChains(TheItemDict, 1, LinkHref(item), LinkText(item))
                /\ ChainsTo(item) = 0 \/ AnchorCount(html, LinkHref(item), LinkText(item)) >= 1

\* a bookmark with a title of its own, written once, under that title
C4_Witness ==
    /\ Rendered
    /\ \E k \in 1..Len(TheItemDict) :
          LET item == TheItemDict[k].value IN
          /\ RoundTrips(item)
          /\ "title" \in DOMAIN item /\ Truthy(item.title)
          /\ item.title # item.data.tab.savedTitle
          /\ ChainsTo(item) = 1
          /\ AnchorCount(html, item.data.tab.savedURL.v, item.title.v) = 1

---------------------------------------------------------------------------
(* C10 *)

FolderEntries(item_dict) ==
    {i \in 1..Len(item_dict) : IsFolderItem(item_dict[i].value)}

RECURSIVE Below(_, _)
\* the Folder entries at or below the entries S
Below(item_dict, S) ==
    LET T == S \cup {i \in FolderEntries(item_dict) :
                        \E j \in S : /\ HasStrParent(item_dict[i].value)
                                     /\ item_dict[i].value.parentID.v = item_dict[j].key}
    IN IF T = S THEN S ELSE Below(item_dict, T)

ChildFolders(item_dict, P) ==
    {i \in FolderEntries(item_dict) :
        HasStrParent(item_dict[i].value) /\ item_dict[i].value.parentID.v = P}

\* the Folder entries the builder reaches from the pinned container ids
ReachableFolders(item_dict, pinned) ==
    Below(item_dict, UNION {ChildFolders(item_dict, c) : c \in DictKeys(pinned)})

OwnAncestor(item_dict, i) ==
    i \in Below(item_dict, ChildFolders(item_dict, item_dict[i].key))

ReachableCycle(item_dict, pinned) ==
    \E i \in ReachableFolders(item_dict, pinned) : OwnAncestor(item_dict, i)

Occurrences(q, x) == Cardinality({i \in 1..Len(q) : q[i] = x})

\* C10 as stated: the builder returns, having recursed into each reachable
\* Folder item once, unless a parentID cycle through Folder items is reachable
\* from a pinned container id, and exactly then it runs out of stack.
C10_TerminatesVisitingEachFolderOnce ==
    BuilderRan =>
        /\ (exc = "RecursionError") <=> ReachableCycle(TheItemDict, spaces_names.pinned)
        /\ exc = "" =>
              \A i \in ReachableFolders(TheItemDict, spaces_names.pinned) :
                  Occurrences(visited, TheItemDict[i].key) = 1

\* C10, amended: the builder returns unless a parentID cycle through Folder items
\* is reachable from a pinned container id, and exactly then it runs out of
\* stack; when it returns it has recursed into every Folder item once for each
\* chain of parentID links leading to it from a pinned container id: at least
\* once when reachable (more than once only below a Folder item whose id is itself
\* a pinned container id), never when unreachable, cycle or not.
C10_TerminatesUnlessReachableCycle ==
    BuilderRan =>
        /\ (exc = "RecursionError") <=> ReachableCycle(TheItemDict, spaces_names.pinned)
        /\ exc # "RecursionError" =>
              \A i \in FolderEntries(TheItemDict) :
                  /\ Occurrences(visited, TheItemDict[i].key)
                        = ChainsTo(TheItemDict[i].value)
                  /\ (i \in ReachableFolders(TheItemDict, spaces_names.pinned))
                        <=> Occurrences(visited, TheItemDict[i].key) >= 1
                  /\ Occurrences(visited, TheItemDict[i].key) > 1 =>
                        \E j \in ReachableFolders(TheItemDict, spaces_names.pinned) :
                            TheItemDict[j].key \in DictKeys(spaces_names.pinned)

\* the builder returned with a folder recursed into and a cycle it never reached
C10_Witness ==
    /\ BuilderRan
    /\ exc = ""
    /\ Len(visited) > 0
    /\ \E i \in FolderEntries(TheItemDict) :
          /\ OwnAncestor(TheItemDict, i)
          /\ i \notin ReachableFolders(TheItemDict, spaces_names.pinned)

====
